---- MODULE Spec2Model ----
(***************************************************************************)
(* Model of the diagnostic console's test-suite orchestration:             *)
(*   - App            (src/src/App.tsx): which page component is mounted   *)
(*   - TestProvider   (src/unnamed/part_000): the Result Store             *)
(*   - TestRunner     (src/unnamed/part_004): suite registry and the engine*)
(*   - <Category>Tests.runTest (src/unnamed/part_007 and its siblings):    *)
(*                    the per-category check helper                        *)
(* JavaScript runs each handler to its next await without interruption, so *)
(* one action is one such stretch of code.                                 *)
(***************************************************************************)
EXTENDS Integers, Sequences, FiniteSets, TLC

(***************************************************************************)
(* Bounds of the model.                                                    *)
(***************************************************************************)
MaxToggles == 2     \* toggleSuite/toggleTest calls in one behaviour
MaxRuns    == 2     \* runTestSuite invocations in flight at a time
MaxTests   == 2     \* runTest (category page) invocations in one behaviour
MaxNav     == 2     \* sidebar navigations in one behaviour
MaxClock   == 1     \* largest value Date.now() takes
MaxCases   == 3     \* enabled cases of the registry a TestRunner behaviour starts from
MaxPublished == 4   \* notifications the bus is handed in one behaviour
MaxStore   == 3     \* entries of the Result Store when its functions are called directly

VARIABLES
  activeCategory,   \* App: useState<TestCategory>('dashboard')
  inst,             \* identity of the mounted page component instance
  suites,           \* TestRunner: useState(testSuites)
  isRunning,        \* TestRunner: useState(false)
  currentTest,      \* TestRunner: useState<string | null>(null)
  progress,         \* TestRunner: useState(0), kept as <<numerator, denominator>>
  loading,          \* <Category>Tests: useState<string | null>(null)
  results,          \* TestProvider: useState<TestResultData[]>([])
  published,        \* the notifications handed to addNotification by the latest
                    \* handler step that published any, in order
  runs,             \* the invocations of runTestSuite, in order of their start
  tests,            \* the invocations of runTest, in order of their start
  now,              \* the clock read by Date.now()
  toggles,          \* number of toggle calls made so far
  notifications,    \* NotificationProvider: the active notifications, oldest first
  issued            \* NotificationProvider: the number of identifiers assigned

vars == <<activeCategory, inst, suites, isRunning, currentTest, progress,
          loading, results, published, runs, tests, now, toggles,
          notifications, issued>>

Null == "null"

(***************************************************************************)
(* The catalog (TestRunner.testSuites).  The description of a suite is     *)
(* display text only and is left out.                                      *)
(***************************************************************************)
TestCase(id, name, category, priority) ==
  [id |-> id, name |-> name, category |-> category, enabled |-> TRUE,
   priority |-> priority]

testSuites ==
  << [id |-> "smoke", name |-> "Smoke Tests", enabled |-> TRUE,
      tests |-> << TestCase("connection", "Database Connection", "database", "high"),
                   TestCase("auth-signin", "User Sign In", "auth", "high"),
                   TestCase("basic-query", "Basic Query", "database", "high"),
                   TestCase("storage-list", "List Storage Buckets", "storage", "medium") >>],
     [id |-> "regression", name |-> "Regression Tests", enabled |-> TRUE,
      tests |-> << TestCase("auth-full", "Full Authentication Flow", "auth", "high"),
                   TestCase("database-crud", "Database CRUD Operations", "database", "high"),
                   TestCase("storage-operations", "Storage Operations", "storage", "medium"),
                   TestCase("realtime-basic", "Realtime Subscriptions", "realtime", "medium"),
                   TestCase("api-endpoints", "API Endpoints", "api", "medium") >>],
     [id |-> "performance", name |-> "Performance Tests", enabled |-> FALSE,
      tests |-> << TestCase("bulk-insert", "Bulk Data Insert", "performance", "medium"),
                   TestCase("concurrent-queries", "Concurrent Queries", "performance", "medium"),
                   TestCase("large-payload", "Large Payload Handling", "performance", "low") >>],
     [id |-> "security", name |-> "Security Tests", enabled |-> FALSE,
      tests |-> << TestCase("unauthorized-access", "Unauthorized Access", "security", "high"),
                   TestCase("jwt-validation", "JWT Validation", "security", "high"),
                   TestCase("sql-injection", "SQL Injection Protection", "security", "high") >>] >>

SuiteIds == {testSuites[k].id : k \in DOMAIN testSuites}

TestIds == UNION {{testSuites[k].tests[j].id : j \in DOMAIN testSuites[k].tests} :
                  k \in DOMAIN testSuites}

\* An identifier that names no suite and no case of the catalog.
UnknownId == "unknown"

(***************************************************************************)
(* Array helpers of the JavaScript run time.                               *)
(***************************************************************************)
RECURSIVE Flatten(_)
Flatten(ss) == IF ss = << >> THEN << >> ELSE Head(ss) \o Flatten(Tail(ss))

\* s without its k-th element
Remove(s, k) == [j \in 1..(Len(s) - 1) |-> IF j < k THEN s[j] ELSE s[j + 1]]

Last(s) == s[Len(s)]

(***************************************************************************)
(* Suite registry.                                                         *)
(***************************************************************************)
\* toggleSuite that also sets every case of the suite to the suite's new flag.
toggleSuiteWithCases(prev, suiteId) ==
  [k \in DOMAIN prev |->
     IF prev[k].id = suiteId
       THEN [prev[k] EXCEPT !.enabled = ~ prev[k].enabled,
                            !.tests = [j \in DOMAIN prev[k].tests |->
                                         [prev[k].tests[j] EXCEPT !.enabled = ~ prev[k].enabled]]]
       ELSE prev[k]]

\* toggleSuite: setSuites(prev => prev.map(...))
toggleSuite(prev, suiteId) ==
  [k \in DOMAIN prev |->
     IF prev[k].id = suiteId THEN [prev[k] EXCEPT !.enabled = ~ prev[k].enabled]
                             ELSE prev[k]]

\* toggleTest that switches the case off instead of negating its flag.
toggleTestOff(prev, suiteId, testId) ==
  [k \in DOMAIN prev |->
     IF prev[k].id = suiteId
       THEN [prev[k] EXCEPT !.tests =
               [j \in DOMAIN prev[k].tests |->
                  IF prev[k].tests[j].id = testId
                    THEN [prev[k].tests[j] EXCEPT !.enabled = FALSE]
                    ELSE prev[k].tests[j]]]
       ELSE prev[k]]

\* toggleTest that leaves the cases of a disabled suite alone.
toggleTestIfSuiteEnabled(prev, suiteId, testId) ==
  [k \in DOMAIN prev |->
     IF prev[k].id = suiteId /\ prev[k].enabled
       THEN [prev[k] EXCEPT !.tests =
               [j \in DOMAIN prev[k].tests |->
                  IF prev[k].tests[j].id = testId
                    THEN [prev[k].tests[j] EXCEPT !.enabled = ~ prev[k].tests[j].enabled]
                    ELSE prev[k].tests[j]]]
       ELSE prev[k]]

\* toggleTest: setSuites(prev => prev.map(... suite.tests.map(...)))
toggleTest(prev, suiteId, testId) ==
  [k \in DOMAIN prev |->
     IF prev[k].id = suiteId
       THEN [prev[k] EXCEPT !.tests =
               [j \in DOMAIN prev[k].tests |->
                  IF prev[k].tests[j].id = testId
                    THEN [prev[k].tests[j] EXCEPT !.enabled = ~ prev[k].tests[j].enabled]
                    ELSE prev[k].tests[j]]]
       ELSE prev[k]]

\* getEnabledTests: suites.filter(s => s.enabled).flatMap(s => s.tests.filter(t => t.enabled))
EnabledOf(suite) == SelectSeq(suite.tests, LAMBDA t : t.enabled)

\* getEnabledTests without its filter on the suite's flag.
getEnabledTestsIgnoringSuite(ss) == Flatten([k \in DOMAIN ss |-> EnabledOf(ss[k])])

\* getEnabledTests followed by a stable sort on priority (high, medium, low).
getEnabledTestsByPriority(ss) ==
  LET enabledSuites == SelectSeq(ss, LAMBDA s : s.enabled)
      listed == Flatten([k \in DOMAIN enabledSuites |-> EnabledOf(enabledSuites[k])])
  IN  SelectSeq(listed, LAMBDA t : t.priority = "high")
        \o SelectSeq(listed, LAMBDA t : t.priority = "medium")
        \o SelectSeq(listed, LAMBDA t : t.priority = "low")

getEnabledTestsOf(ss) ==
  LET enabledSuites == SelectSeq(ss, LAMBDA s : s.enabled)
  IN  Flatten([k \in DOMAIN enabledSuites |-> EnabledOf(enabledSuites[k])])

getEnabledTests == getEnabledTestsOf(suites)

(***************************************************************************)
(* Progress is a JavaScript number; it is kept as the exact fraction       *)
(* <<numerator, denominator>> in lowest terms.                             *)
(***************************************************************************)
RECURSIVE Gcd(_, _)
Gcd(a, b) == IF b = 0 THEN a ELSE Gcd(b, a % b)

Frac(a, b) == <<a \div Gcd(a, b), b \div Gcd(a, b)>>

Num(k) == <<k, 1>>

(***************************************************************************)
(* A notification as the handlers hand it to addNotification.  The bus     *)
(* itself (NotificationContext) is not among the sources; of it the model  *)
(* keeps what each handler step publishes.                                 *)
(***************************************************************************)
Notification(type, title, message) ==
  [type |-> type, title |-> title, message |-> message]

(***************************************************************************)
(* Notification Bus (NotificationProvider), as the specification describes *)
(* it: publish assigns an identifier and appends to the active set; every  *)
(* notification has a timer of its own that removes it from the active set *)
(* a fixed time after its creation; dismiss removes it earlier.            *)
(***************************************************************************)
busVars == <<notifications, issued>>

\* The notification with the identifier the bus assigned to it.
Stamp(n, id) ==
  [id |-> id, type |-> n.type, title |-> n.title, message |-> n.message]

\* publish, for the notifications one handler step hands over, in order.
publish(active, count, ns) ==
  active \o [k \in DOMAIN ns |-> Stamp(ns[k], count + k)]

\* The identifiers in the active set.
ActiveIds == {notifications[k].id : k \in DOMAIN notifications}

\* The active set without the notification with this identifier.
Without(active, id) == SelectSeq(active, LAMBDA n : n.id /= id)

\* A handler step hands what it publishes to the bus.
Deliver ==
  /\ issued + Len(published') <= MaxPublished
  /\ notifications' = publish(notifications, issued, published')
  /\ issued' = issued + Len(published')

\* A handler step that publishes nothing, and every step of a component that
\* is looked at without the bus: such a component hands its notifications
\* over in `published'.
BusIdle == UNCHANGED busVars

\* The expiry timer of a notification that leaves notifications of type
\* error in the active set.
ExpireUnlessError(id) ==
  /\ \E k \in DOMAIN notifications :
       notifications[k].id = id /\ notifications[k].type /= "error"
  /\ notifications' = Without(notifications, id)
  /\ UNCHANGED <<activeCategory, inst, suites, isRunning, currentTest, progress,
                 loading, results, published, runs, tests, now, toggles, issued>>

\* The expiry timer of notification id fires.
Expire(id) ==
  /\ id \in ActiveIds
  /\ notifications' = Without(notifications, id)
  /\ UNCHANGED <<activeCategory, inst, suites, isRunning, currentTest, progress,
                 loading, results, published, runs, tests, now, toggles, issued>>

\* dismiss(id): the user closes the notification.
dismiss(id) ==
  /\ id \in ActiveIds
  /\ notifications' = Without(notifications, id)
  /\ UNCHANGED <<activeCategory, inst, suites, isRunning, currentTest, progress,
                 loading, results, published, runs, tests, now, toggles, issued>>

(***************************************************************************)
(* Result Store (TestProvider).  A result carries id, name, status and     *)
(* message; duration, timestamp and details are display data.              *)
(***************************************************************************)
TestResultData(id, name, status, message) ==
  [id |-> id, name |-> name, status |-> status, message |-> message]

\* addResult that puts the new entry at the end of the list.
addResultAppend(prev, result) == prev \o <<result>>

\* addResult: setResults(prev => [result, ...prev])
addResult(prev, result) == <<result>> \o prev

\* { ...result, ...updates }: the fields of updates over those of result.
Spread(result, updates) ==
  [f \in DOMAIN result \cup DOMAIN updates |->
     IF f \in DOMAIN updates THEN updates[f] ELSE result[f]]

\* updateResult that adds the updates as a new entry when no entry has the id.
updateResultUpsert(prev, id, updates) ==
  IF \E k \in DOMAIN prev : prev[k].id = id
    THEN [k \in DOMAIN prev |->
            IF prev[k].id = id THEN Spread(prev[k], updates) ELSE prev[k]]
    ELSE <<Spread(TestResultData(id, id, "pending", Null), updates)>> \o prev

\* updateResult: setResults(prev => prev.map(r => r.id === id ? {...r, ...updates} : r))
updateResult(prev, id, updates) ==
  [k \in DOMAIN prev |->
     IF prev[k].id = id THEN Spread(prev[k], updates) ELSE prev[k]]

\* clearResults that keeps the entries still in status running.
clearResultsKeepRunning == SelectSeq(results, LAMBDA r : r.status = "running")

\* clearResults: setResults([])
clearResults == << >>

\* String.prototype.startsWith: string s starts with string p.
StartsWith(s, p) == Len(p) <= Len(s) /\ SubSeq(s, 1, Len(p)) = p

\* getResultsByCategory: results.filter(result => result.id.startsWith(category))
getResultsByCategory(rs, category) ==
  SelectSeq(rs, LAMBDA r : StartsWith(r.id, category))

\* results.filter(r => r.status === status).length
CountStatus(rs, status) == Cardinality({k \in DOMAIN rs : rs[k].status = status})

(***************************************************************************)
(* App: the pages of the sidebar.  The six category pages not listed in    *)
(* PageCategories are built like the two that are.                         *)
(***************************************************************************)
PageCategories == {"database", "realtime"}

TestCategory == {"dashboard", "runner"} \cup PageCategories

\* The check names offered by the buttons of a category page.
PageTestNames(c) ==
  IF c = "database" THEN {"Create Table", "Insert Record"}
                    ELSE {"Subscribe to Table"}

Init ==
  /\ activeCategory = "dashboard"
  /\ inst = 0
  /\ suites = testSuites
  /\ isRunning = FALSE
  /\ currentTest = Null
  /\ progress = Num(0)
  /\ loading = Null
  /\ results = << >>
  /\ published = << >>
  /\ runs = << >>
  /\ tests = << >>
  /\ now = 0
  /\ toggles = 0
  /\ notifications = << >>
  /\ issued = 0

(***************************************************************************)
(* App: a click in the sidebar.  The page shown is unmounted and the       *)
(* chosen one is mounted with the initial values of its useState hooks.    *)
(* Invocations started by the unmounted instance keep running; their       *)
(* setState calls no longer have an effect.                                *)
(***************************************************************************)
onCategoryChange(c) ==
  /\ c /= activeCategory
  /\ inst < MaxNav
  /\ activeCategory' = c
  /\ inst' = inst + 1
  /\ suites' = testSuites
  /\ isRunning' = FALSE
  /\ currentTest' = Null
  /\ progress' = Num(0)
  /\ loading' = Null
  /\ UNCHANGED <<results, published, runs, tests, now, toggles>>

\* Whether the component instance that started an invocation is still mounted.
Mounted(category, i) == activeCategory = category /\ inst = i

(***************************************************************************)
(* TestRunner: the suite and case check boxes.                             *)
(***************************************************************************)
SuiteCheckbox(suiteId) ==
  /\ activeCategory = "runner"
  /\ toggles < MaxToggles
  /\ suites' = toggleSuite(suites, suiteId)
  /\ toggles' = toggles + 1
  /\ UNCHANGED <<activeCategory, inst, isRunning, currentTest, progress, loading,
                 results, published, runs, tests, now>>

\* The case check box is disabled while its suite is disabled.
TestCheckbox(k, j) ==
  /\ activeCategory = "runner"
  /\ toggles < MaxToggles
  /\ suites[k].enabled
  /\ suites' = toggleTest(suites, suites[k].id, suites[k].tests[j].id)
  /\ toggles' = toggles + 1
  /\ UNCHANGED <<activeCategory, inst, isRunning, currentTest, progress, loading,
                 results, published, runs, tests, now>>

(***************************************************************************)
(* TestRunner: the engine.  An invocation of runTestSuite is a record      *)
(*   inst          the TestRunner instance whose handler was invoked       *)
(*   enabledTests  the const of line 270                                   *)
(*   results       the results the closure of the handler sees             *)
(*   i             the loop variable (the case at enabledTests[i + 1])     *)
(* and three fields that record its history for the properties below.  The *)
(* invocation is at the await of line 298; its record is dropped when the  *)
(* function returns.                                                       *)
(*   failed        the number of cases so far whose probe failed           *)
(*   stopped       stopTestSuite was called while its loop was running     *)
(*   afterStop     the number of cases it began after that call            *)
(***************************************************************************)
Outcomes == {"pass", "fail", "throw"}

\* Lines 303-322: the notification of one case's outcome.
OutcomeNotification(test, outcome) ==
  CASE outcome = "pass"  -> Notification("success", "Test Passed",
                                         test.name \o " completed successfully")
    [] outcome = "fail"  -> Notification("error", "Test Failed",
                                         test.name \o " failed")
    [] outcome = "throw" -> Notification("error", "Test Error",
                                         test.name \o " encountered an error")

\* Lines 329-336: the summary, computed from the results the closure sees.
SummaryNotification(closureResults, enabledTests) ==
  LET passedTests == CountStatus(closureResults, "success")
      totalTests  == Len(enabledTests)
  IN  Notification(IF passedTests = totalTests THEN "success" ELSE "warning",
                   "Test Suite Completed",
                   ToString(passedTests) \o "/" \o ToString(totalTests) \o " tests passed")

\* runTestSuite with the test of line 272 made after the start step of lines
\* 281-289 instead of before it.
runTestSuiteLateGuard ==
  /\ activeCategory = "runner"
  /\ ~ isRunning
  /\ LET enabledTests == getEnabledTests
     IN  IF Len(enabledTests) = 0
           THEN /\ isRunning' = TRUE
                /\ progress' = Num(0)
                /\ results' = clearResults
                /\ published' =
                      << Notification("warning", "No Tests Selected",
                            "Please enable at least one test suite and test case") >>
                /\ UNCHANGED <<currentTest, runs>>
           ELSE /\ Len(runs) < MaxRuns
                /\ isRunning' = TRUE
                /\ results' = clearResults
                /\ published' =
                      << Notification("info", "Test Suite Started",
                            "Running " \o ToString(Len(enabledTests)) \o " tests") >>
                /\ currentTest' = enabledTests[1].name
                /\ progress' = Frac(1 * 100, Len(enabledTests))
                /\ runs' = Append(runs,
                      [inst |-> inst, enabledTests |-> enabledTests,
                       results |-> results, i |-> 0,
                       failed |-> 0, stopped |-> FALSE, afterStop |-> 0])
  /\ UNCHANGED <<activeCategory, inst, suites, loading, tests, now, toggles>>

\* Lines 269-298: a click on Run Tests, up to the first await.
runTestSuite ==
  /\ activeCategory = "runner"
  /\ ~ isRunning
  /\ LET enabledTests == getEnabledTests
     IN  IF Len(enabledTests) = 0
           THEN /\ published' =
                      << Notification("warning", "No Tests Selected",
                            "Please enable at least one test suite and test case") >>
                /\ UNCHANGED <<isRunning, currentTest, progress, results, runs>>
           ELSE /\ Len(runs) < MaxRuns
                /\ isRunning' = TRUE
                /\ results' = clearResults
                /\ published' =
                      << Notification("info", "Test Suite Started",
                            "Running " \o ToString(Len(enabledTests)) \o " tests") >>
                /\ currentTest' = enabledTests[1].name
                /\ progress' = Frac(1 * 100, Len(enabledTests))
                /\ runs' = Append(runs,
                      [inst |-> inst, enabledTests |-> enabledTests,
                       results |-> results, i |-> 0,
                       failed |-> 0, stopped |-> FALSE, afterStop |-> 0])
  /\ UNCHANGED <<activeCategory, inst, suites, loading, tests, now, toggles>>

\* The loop of lines 291-323 with a catch clause that leaves the function
\* after a failed case instead of going on to the next one.
NextCaseFailFast(r, outcome) ==
  LET run  == runs[r]
      test == run.enabledTests[run.i + 1]
      next == run.enabledTests[run.i + 2]
      live == Mounted("runner", run.inst)
  IN  /\ published' = << OutcomeNotification(test, outcome) >>
      /\ IF outcome = "pass"
           THEN /\ currentTest' = IF live THEN next.name ELSE currentTest
                /\ progress' = IF live THEN Frac((run.i + 2) * 100, Len(run.enabledTests))
                                       ELSE progress
                /\ runs' = [runs EXCEPT ![r].i = run.i + 1,
                                        ![r].afterStop = run.afterStop
                                                         + (IF run.stopped THEN 1 ELSE 0)]
           ELSE /\ runs' = Remove(runs, r)
                /\ UNCHANGED <<currentTest, progress>>
      /\ UNCHANGED <<isRunning, results>>

\* The loop of lines 291-323 with the total of line 294 read from the registry
\* as it is now instead of from the const of line 270.
NextCaseLiveTotal(r, outcome) ==
  LET run  == runs[r]
      test == run.enabledTests[run.i + 1]
      next == run.enabledTests[run.i + 2]
      live == Mounted("runner", run.inst)
  IN  /\ published' = << OutcomeNotification(test, outcome) >>
      /\ currentTest' = IF live THEN next.name ELSE currentTest
      /\ progress' = IF live THEN Frac((run.i + 2) * 100, Len(getEnabledTests))
                             ELSE progress
      /\ runs' = [runs EXCEPT ![r].i = run.i + 1,
                              ![r].failed = run.failed + (IF outcome = "pass" THEN 0 ELSE 1),
                              ![r].afterStop = run.afterStop + (IF run.stopped THEN 1 ELSE 0)]
      /\ UNCHANGED <<isRunning, results>>

\* The loop of lines 291-323 with a catch clause that runs the failed case
\* again instead of going on to the next one.
NextCaseRetry(r, outcome) ==
  LET run  == runs[r]
      test == run.enabledTests[run.i + 1]
      next == run.enabledTests[run.i + 2]
      live == Mounted("runner", run.inst)
  IN  /\ published' = << OutcomeNotification(test, outcome) >>
      /\ IF outcome = "pass"
           THEN /\ currentTest' = IF live THEN next.name ELSE currentTest
                /\ progress' = IF live THEN Frac((run.i + 2) * 100, Len(run.enabledTests))
                                       ELSE progress
                /\ runs' = [runs EXCEPT ![r].i = run.i + 1,
                                        ![r].afterStop = run.afterStop
                                                         + (IF run.stopped THEN 1 ELSE 0)]
           ELSE /\ runs' = [runs EXCEPT ![r].failed = run.failed + 1]
                /\ UNCHANGED <<currentTest, progress>>
      /\ UNCHANGED <<isRunning, results>>

\* Lines 299-323 and 291-298: the await of case i returns; its outcome is
\* published and the loop goes on to case i + 1.
NextCase(r, outcome) ==
  LET run  == runs[r]
      test == run.enabledTests[run.i + 1]
      next == run.enabledTests[run.i + 2]
      live == Mounted("runner", run.inst)
  IN  /\ published' = << OutcomeNotification(test, outcome) >>
      /\ currentTest' = IF live THEN next.name ELSE currentTest
      /\ progress' = IF live THEN Frac((run.i + 2) * 100, Len(run.enabledTests))
                             ELSE progress
      /\ runs' = [runs EXCEPT ![r].i = run.i + 1,
                              ![r].failed = run.failed + (IF outcome = "pass" THEN 0 ELSE 1),
                              ![r].afterStop = run.afterStop + (IF run.stopped THEN 1 ELSE 0)]
      /\ UNCHANGED <<isRunning, results>>

\* The end of runTestSuite without the setIsRunning(false) of line 325.
CompleteLeavesRunning(r, outcome) ==
  LET run  == runs[r]
      test == run.enabledTests[run.i + 1]
      live == Mounted("runner", run.inst)
  IN  /\ currentTest' = IF live THEN Null ELSE currentTest
      /\ progress' = IF live THEN Num(100) ELSE progress
      /\ published' = << OutcomeNotification(test, outcome),
                          SummaryNotification(run.results, run.enabledTests) >>
      /\ runs' = Remove(runs, r)
      /\ UNCHANGED <<isRunning, results>>

\* Lines 299-337: the await of the last case returns; its outcome is published
\* and the function runs to its end.
Complete(r, outcome) ==
  LET run  == runs[r]
      test == run.enabledTests[run.i + 1]
      live == Mounted("runner", run.inst)
  IN  /\ isRunning' = IF live THEN FALSE ELSE isRunning
      /\ currentTest' = IF live THEN Null ELSE currentTest
      /\ progress' = IF live THEN Num(100) ELSE progress
      /\ published' = << OutcomeNotification(test, outcome),
                          SummaryNotification(run.results, run.enabledTests) >>
      /\ runs' = Remove(runs, r)
      /\ UNCHANGED results

ProbeSettles(r, outcome) ==
  /\ IF runs[r].i + 1 < Len(runs[r].enabledTests)
       THEN NextCase(r, outcome)
       ELSE Complete(r, outcome)
  /\ UNCHANGED <<activeCategory, inst, suites, loading, tests, now, toggles>>

\* stopTestSuite that also empties the Result Store.
stopTestSuiteClearing ==
  /\ activeCategory = "runner"
  /\ isRunning
  /\ isRunning' = FALSE
  /\ currentTest' = Null
  /\ results' = clearResults
  /\ published' =
        << Notification("info", "Test Suite Stopped", "Test execution has been stopped") >>
  /\ runs' = [r \in DOMAIN runs |->
                IF runs[r].inst = inst
                  THEN [runs[r] EXCEPT !.stopped = TRUE]
                  ELSE runs[r]]
  /\ UNCHANGED <<activeCategory, inst, suites, progress, loading, tests, now, toggles>>

\* Lines 339-347: a click on Stop Tests.
stopTestSuite ==
  /\ activeCategory = "runner"
  /\ isRunning
  /\ isRunning' = FALSE
  /\ currentTest' = Null
  /\ published' =
        << Notification("info", "Test Suite Stopped", "Test execution has been stopped") >>
  /\ runs' = [r \in DOMAIN runs |->
                IF runs[r].inst = inst
                  THEN [runs[r] EXCEPT !.stopped = TRUE]
                  ELSE runs[r]]
  /\ UNCHANGED <<activeCategory, inst, suites, progress, loading, results, tests,
                 now, toggles>>

\* Line 392: a click on Clear Results.
ClearResultsButton ==
  /\ activeCategory = "runner"
  /\ results' = clearResults
  /\ UNCHANGED <<activeCategory, inst, suites, isRunning, currentTest, progress,
                 loading, published, runs, tests, now, toggles>>

(***************************************************************************)
(* Category pages: runTest (DatabaseTests and its siblings).  An invocation*)
(* is a record                                                             *)
(*   inst, category  the page instance whose button was clicked            *)
(*   testName        the first argument                                    *)
(*   testId          the const of line 19                                  *)
(*   pc              "await" at the await of line 32, "done" after return  *)
(*   settled         how the probe settled (history)                       *)
(***************************************************************************)
\* What testFn can do: return a payload, throw an Error carrying a message,
\* or throw a value that is no instance of Error (the message it carries is
\* then not looked at).
ErrorMessages == {"timeout"}

Pending == [kind |-> "pending", message |-> Null]

Settlements ==
  {[kind |-> "return", message |-> Null]}
    \cup {[kind |-> k, message |-> m] : k \in {"Error", "object"}, m \in ErrorMessages}

\* The identifier of line 19 with the check's name put before the category.
TestIdNameFirst(category, testName, time) ==
  testName \o "-" \o category \o "-" \o ToString(time)

\* Line 19: `${category}-${testName}-${Date.now()}`
TestId(category, testName, time) ==
  category \o "-" \o testName \o "-" \o ToString(time)

\* Line 57: error instanceof Error ? error.message : 'Unknown error'
MessageOf(thrown) ==
  IF thrown.kind = "Error" THEN thrown.message ELSE "Unknown error"

\* "database" -> "Database": the title prefix of a page's published.
PageTitle(c) == IF c = "database" THEN "Database" ELSE "Realtime"

\* Lines 22-27: the entry published when the check starts.
RecordRunning(prev, testId, testName) ==
  addResult(prev, TestResultData(testId, testName, "running", Null))

\* Lines 35-43 and 53-61: the entry published when the check has settled.
RecordOutcome(prev, testId, testName, status, message) ==
  addResult(prev, TestResultData(testId, testName, status, message))

\* Lines 18-32: a click on a check button, up to the await of the probe.
runTest(c, testName) ==
  /\ activeCategory = c
  /\ loading = Null
  /\ Len(tests) < MaxTests
  /\ LET testId == TestId(c, testName, now)
     IN  /\ loading' = testId
         /\ results' = RecordRunning(results, testId, testName)
         /\ tests' = Append(tests,
               [inst |-> inst, category |-> c, testName |-> testName,
                testId |-> testId, pc |-> "await", settled |-> Pending])
  /\ UNCHANGED <<activeCategory, inst, suites, isRunning, currentTest, progress,
                 published, runs, now, toggles>>

\* Lines 32-70: the probe settles and runTest runs to its end.
TestSettles(t, settled) ==
  LET test == tests[t]
  IN  /\ test.pc = "await"
      /\ IF settled.kind = "return"
           THEN /\ results' = RecordOutcome(results, test.testId, test.testName,
                                 "success", "Test completed successfully")
                /\ published' =
                      << Notification("success", PageTitle(test.category) \o " Test Passed",
                            test.testName \o " completed successfully") >>
           ELSE /\ results' = RecordOutcome(results, test.testId, test.testName,
                                 "error", MessageOf(settled))
                /\ published' =
                      << Notification("error", PageTitle(test.category) \o " Test Failed",
                            test.testName \o " failed: " \o MessageOf(settled)) >>
      /\ loading' = IF Mounted(test.category, test.inst) THEN Null ELSE loading
      /\ tests' = [tests EXCEPT ![t].pc = "done", ![t].settled = settled]
      /\ UNCHANGED <<activeCategory, inst, suites, isRunning, currentTest, progress,
                     runs, now, toggles>>

\* Time passes.
Tick ==
  /\ now < MaxClock
  /\ now' = now + 1
  /\ UNCHANGED <<activeCategory, inst, suites, isRunning, currentTest, progress,
                 loading, results, published, runs, tests, toggles>>

(***************************************************************************)
(* The console.                                                            *)
(***************************************************************************)
Next ==
  \/ \E c \in TestCategory : onCategoryChange(c) /\ BusIdle
  \/ \E s \in SuiteIds : SuiteCheckbox(s) /\ BusIdle
  \/ \E k \in DOMAIN suites : \E j \in DOMAIN suites[k].tests : TestCheckbox(k, j) /\ BusIdle
  \/ runTestSuite /\ Deliver
  \/ \E r \in DOMAIN runs : \E o \in Outcomes : ProbeSettles(r, o) /\ Deliver
  \/ stopTestSuite /\ Deliver
  \/ ClearResultsButton /\ BusIdle
  \/ \E c \in PageCategories : \E n \in PageTestNames(c) : runTest(c, n) /\ BusIdle
  \/ \E t \in DOMAIN tests : \E s \in Settlements : TestSettles(t, s) /\ Deliver
  \/ Tick /\ BusIdle
  \/ \E id \in 1..MaxPublished : Expire(id)
  \/ \E id \in 1..MaxPublished : dismiss(id)

Spec == Init /\ [][Next]_vars

(***************************************************************************)
(* The suite registry alone: toggleSuite and toggleTest called with any    *)
(* arguments, known or not.                                                *)
(***************************************************************************)
ToggleSuiteCall(suiteId) ==
  /\ toggles < MaxToggles
  /\ suites' = toggleSuite(suites, suiteId)
  /\ toggles' = toggles + 1
  /\ UNCHANGED <<activeCategory, inst, isRunning, currentTest, progress, loading,
                 results, published, runs, tests, now>>

ToggleTestCall(suiteId, testId) ==
  /\ toggles < MaxToggles
  /\ suites' = toggleTest(suites, suiteId, testId)
  /\ toggles' = toggles + 1
  /\ UNCHANGED <<activeCategory, inst, isRunning, currentTest, progress, loading,
                 results, published, runs, tests, now>>

NextRegistry ==
  \/ \E s \in SuiteIds \cup {UnknownId} : ToggleSuiteCall(s) /\ BusIdle
  \/ \E s \in SuiteIds \cup {UnknownId} : \E t \in TestIds \cup {UnknownId} :
       ToggleTestCall(s, t) /\ BusIdle

SpecRegistry == Init /\ [][NextRegistry]_vars

(***************************************************************************)
(* The TestRunner page alone.  A behaviour starts with the page mounted    *)
(* and the registry as the check boxes can leave it: suite "regression"    *)
(* switched off and only the first k cases of suite "smoke" switched on.   *)
(***************************************************************************)
SmokeOnly(k) ==
  LET off == toggleSuite(testSuites, "regression")
  IN  [off EXCEPT ![1].tests =
         [j \in DOMAIN off[1].tests |-> [off[1].tests[j] EXCEPT !.enabled = (j <= k)]]]

InitRunner ==
  /\ activeCategory = "runner"
  /\ inst = 1
  /\ suites \in {SmokeOnly(k) : k \in 0..MaxCases}
  /\ isRunning = FALSE
  /\ currentTest = Null
  /\ progress = Num(0)
  /\ loading = Null
  /\ results = << >>
  /\ published = << >>
  /\ runs = << >>
  /\ tests = << >>
  /\ now = 0
  /\ toggles = 0
  /\ notifications = << >>
  /\ issued = 0

NextRunner ==
  \/ runTestSuite /\ BusIdle
  \/ \E r \in DOMAIN runs : \E o \in Outcomes : ProbeSettles(r, o) /\ BusIdle
  \/ stopTestSuite /\ BusIdle

SpecRunner == InitRunner /\ [][NextRunner]_vars

(***************************************************************************)
(* The TestRunner page with its check boxes: the registry is changed while *)
(* a run is in progress.                                                   *)
(***************************************************************************)
NextToggleRun ==
  \/ \E s \in SuiteIds : SuiteCheckbox(s) /\ BusIdle
  \/ \E k \in DOMAIN suites : \E j \in DOMAIN suites[k].tests : TestCheckbox(k, j) /\ BusIdle
  \/ runTestSuite /\ BusIdle
  \/ \E r \in DOMAIN runs : \E o \in Outcomes : ProbeSettles(r, o) /\ BusIdle

SpecToggleRun == InitRunner /\ [][NextToggleRun]_vars

(***************************************************************************)
(* The TestRunner page opened while a check of the Database page is still  *)
(* in flight: the user clicked Create Table and went on to the TestRunner  *)
(* page.  The Result Store outlives the pages (TestProvider is mounted     *)
(* above them): it holds the entry of the check, and the check writes to   *)
(* it again when its probe settles, whatever the engine is doing then.     *)
(* The registry has no case enabled or two.                                *)
(***************************************************************************)
InitStop ==
  /\ activeCategory = "runner"
  /\ inst = 1
  /\ suites \in {SmokeOnly(0), SmokeOnly(2)}
  /\ isRunning = FALSE
  /\ currentTest = Null
  /\ progress = Num(0)
  /\ loading = Null
  /\ results = RecordRunning(<< >>, TestId("database", "Create Table", 0), "Create Table")
  /\ published = << >>
  /\ runs = << >>
  /\ tests = << [inst |-> 0, category |-> "database", testName |-> "Create Table",
                  testId |-> TestId("database", "Create Table", 0), pc |-> "await",
                  settled |-> Pending] >>
  /\ now = 0
  /\ toggles = 0
  /\ notifications = << >>
  /\ issued = 0

NextStop ==
  \/ runTestSuite /\ BusIdle
  \/ \E r \in DOMAIN runs : \E o \in Outcomes : ProbeSettles(r, o) /\ BusIdle
  \/ stopTestSuite /\ BusIdle
  \/ \E t \in DOMAIN tests : \E s \in Settlements : TestSettles(t, s) /\ BusIdle

SpecStop == InitStop /\ [][NextStop]_vars

(***************************************************************************)
(* The Notification Bus with the TestRunner page as its publisher.  The    *)
(* timer of every notification fires at some time (weak fairness of its    *)
(* expiry); nothing is assumed of the user or of the probes: the user may  *)
(* never dismiss a notification and a run may never complete.              *)
(***************************************************************************)
NextBus ==
  \/ runTestSuite /\ Deliver
  \/ \E r \in DOMAIN runs : \E o \in Outcomes : ProbeSettles(r, o) /\ Deliver
  \/ stopTestSuite /\ Deliver
  \/ \E id \in 1..MaxPublished : Expire(id)
  \/ \E id \in 1..MaxPublished : dismiss(id)

SpecBus ==
  /\ InitRunner
  /\ [][NextBus]_vars
  /\ \A id \in 1..MaxPublished : WF_vars(Expire(id))

(***************************************************************************)
(* The category pages alone.                                               *)
(***************************************************************************)
NextPages ==
  \/ \E c \in {"dashboard"} \cup PageCategories : onCategoryChange(c) /\ BusIdle
  \/ \E c \in PageCategories : \E n \in PageTestNames(c) : runTest(c, n) /\ BusIdle
  \/ \E t \in DOMAIN tests : \E s \in Settlements : TestSettles(t, s) /\ BusIdle
  \/ Tick /\ BusIdle

SpecPages == Init /\ [][NextPages]_vars

(***************************************************************************)
(* The Result Store with its writers and its readers: the category pages   *)
(* fill it and read their projection of it, the Clear Results button of    *)
(* the TestRunner page empties it.                                         *)
(***************************************************************************)
NextStore ==
  \/ \E c \in TestCategory : onCategoryChange(c) /\ BusIdle
  \/ \E c \in PageCategories : \E n \in PageTestNames(c) : runTest(c, n) /\ BusIdle
  \/ \E t \in DOMAIN tests : \E s \in Settlements : TestSettles(t, s) /\ BusIdle
  \/ Tick /\ BusIdle
  \/ ClearResultsButton /\ BusIdle

SpecStore == Init /\ [][NextStore]_vars

(***************************************************************************)
(* Properties.                                                             *)
(***************************************************************************)
\* The number of cases an invocation of runTestSuite captured.
CasesOf(run) == Len(run.enabledTests)

\* This step is the return of invocation r of runTestSuite.
Returns(r) == r \in DOMAIN runs /\ Len(runs') < Len(runs) /\ runs' = Remove(runs, r)

\* In a step in which invocation r returns: the number of its cases whose probe
\* failed, the last one included (its outcome is the first notification the
\* step publishes).
FailedAtReturn(r) == runs[r].failed + (IF published'[1].type = "success" THEN 0 ELSE 1)

\* The entries of the store with a given identifier.
EntriesOf(rs, id) == {k \in DOMAIN rs : rs[k].id = id}

\* C1: when runTestSuite returns from a run of n >= 1 cases none of whose
\* probes failed, the Result Store holds exactly n entries, all of status
\* success, and progress is 100.
C1_AllPassFillsStore ==
  [][\A r \in DOMAIN runs :
       (Returns(r) /\ FailedAtReturn(r) = 0)
         => /\ Len(results') = CasesOf(runs[r])
            /\ \A k \in DOMAIN results' : results'[k].status = "success"
            /\ progress' = Num(100)]_vars

\* C2: when runTestSuite returns from a run of n cases of which k failed, the
\* Result Store holds n entries, n - k of status success and k of status error,
\* and the summary published has severity warning when k > 0 and success when
\* k = 0 and reports n - k of n passed.
C2_SummaryCountsFailures ==
  [][\A r \in DOMAIN runs :
       Returns(r)
         => LET n == CasesOf(runs[r])
                k == FailedAtReturn(r)
            IN  /\ Len(results') = n
                /\ CountStatus(results', "success") = n - k
                /\ CountStatus(results', "error") = k
                /\ Last(published').title = "Test Suite Completed"
                /\ Last(published').type = IF k > 0 THEN "warning" ELSE "success"
                /\ Last(published').message =
                     ToString(n - k) \o "/" \o ToString(n) \o " tests passed"]_vars

\* C3: fail-open sequencing.  In every step each run keeps its captured cases
\* and stays at its case or moves to the very next one; a step in which a case
\* of a run fails starts that run's next case; and a run ends only by
\* returning from its last case, with the summary published.
C3_FailOpen ==
  [][\A r \in DOMAIN runs :
       IF Len(runs') >= Len(runs)
         THEN /\ runs'[r].enabledTests = runs[r].enabledTests
              /\ runs'[r].i \in {runs[r].i, runs[r].i + 1}
              /\ runs'[r].failed > runs[r].failed
                   => /\ runs'[r].i = runs[r].i + 1
                      /\ runs'[r].i < CasesOf(runs[r])
              /\ (runs'[r].i = runs[r].i + 1 /\ Mounted("runner", runs[r].inst))
                   => currentTest' = runs[r].enabledTests[runs[r].i + 2].name
         ELSE \E q \in DOMAIN runs :
                /\ Returns(q)
                /\ runs[q].i + 1 = CasesOf(runs[q])
                /\ Last(published').title = "Test Suite Completed"]_vars

\* C3 witness: a run is at its third case after an earlier case of it failed.
C3_Witness ==
  \E r \in DOMAIN runs : runs[r].i = 2 /\ runs[r].failed >= 1

\* The position of the enabled-case list at which the case with this id stands.
ListedAt(id) == {p \in DOMAIN getEnabledTests : getEnabledTests[p].id = id}

\* C4: getEnabledTests contains a case if and only if the case's flag and its
\* suite's flag are both true; with the catalog as constructed, suites "smoke"
\* (enabled, 4 cases) and "performance" (disabled, 3 enabled cases) contribute 4.
C4_EnabledIffBothFlags ==
  /\ \A k \in DOMAIN suites : \A j \in DOMAIN suites[k].tests :
       ListedAt(suites[k].tests[j].id) /= {}
         <=> (suites[k].enabled /\ suites[k].tests[j].enabled)
  /\ suites = testSuites
       => /\ Len(getEnabledTestsOf(<<suites[1], suites[3]>>)) = 4
          /\ Len(getEnabledTests) = 9

\* C4 witness: after toggles, a disabled suite holds an enabled case and an
\* enabled suite holds a disabled one.
C4_Witness ==
  /\ toggles > 0
  /\ \E k \in DOMAIN suites : \E j \in DOMAIN suites[k].tests :
       ~ suites[k].enabled /\ suites[k].tests[j].enabled
  /\ \E k \in DOMAIN suites : \E j \in DOMAIN suites[k].tests :
       suites[k].enabled /\ ~ suites[k].tests[j].enabled

\* C5: the Result Store never holds two entries with the same identifier, and
\* distinct invocations of runTest have distinct identifiers.
C5_UniqueIdentifiers ==
  /\ \A a, b \in DOMAIN results : a /= b => results[a].id /= results[b].id
  /\ \A a, b \in DOMAIN tests : a /= b => tests[a].testId /= tests[b].testId

\* C6: the loops of two invocations of runTestSuite are never executing at the
\* same time.
C6_AtMostOneRun == Len(runs) <= 1

\* C7: after stopTestSuite is called during a run, at most one further case of
\* that run begins.
C7_BoundedWorkAfterStop == \A r \in DOMAIN runs : runs[r].afterStop <= 1

\* C8: when the probe of an invocation raises an error with message m, the
\* step in which it is handled leaves exactly one entry for that invocation,
\* of status error and message m, and publishes exactly one notification, of
\* severity error, that names the check.
C8_ProbeErrorRecorded ==
  [][\A t \in DOMAIN tests :
       (tests[t].pc = "await" /\ tests'[t].pc = "done"
          /\ tests'[t].settled.kind /= "return")
         => /\ Cardinality(EntriesOf(results', tests[t].testId)) = 1
            /\ \A k \in EntriesOf(results', tests[t].testId) :
                 /\ results'[k].status = "error"
                 /\ results'[k].message = tests'[t].settled.message
            /\ Len(published') = 1
            /\ published'[1].type = "error"
            /\ StartsWith(published'[1].message, tests[t].testName)]_vars

\* The warning of line 273.
NoTestsSelected ==
  Notification("warning", "No Tests Selected",
     "Please enable at least one test suite and test case")

\* C9: runTestSuite invoked with no case enabled.  In a state where the Run
\* button is shown and no case is enabled, a step that is not the settling of
\* a probe of an earlier run publishes exactly the "No Tests Selected" warning
\* and starts no run, and leaves isRunning (false), progress, currentTest and
\* the Result Store as they were.
C9_EmptyRunOnlyWarns ==
  [][(/\ activeCategory = "runner" /\ ~ isRunning
      /\ Len(getEnabledTests) = 0
      /\ Len(runs') >= Len(runs)
      /\ \A r \in DOMAIN runs : runs'[r] = runs[r]
      /\ <<activeCategory, suites, tests, now, loading>>'
           = <<activeCategory, suites, tests, now, loading>>)
       => /\ published' = << NoTestsSelected >>
          /\ runs' = runs
          /\ ~ isRunning'
          /\ UNCHANGED <<progress, currentTest, results>>]_vars

\* C9 witness: no case is enabled, the warning has been published and the
\* Result Store still holds its earlier entry.
C9_Witness ==
  /\ activeCategory = "runner"
  /\ Len(getEnabledTests) = 0
  /\ published = << NoTestsSelected >>
  /\ ~ isRunning /\ runs = << >> /\ Len(results) = 1

\* C10: every failure of a case's probe is handled within the step of that
\* case and turned into an error result: the step leaves an entry of status
\* error for the case in the Result Store, and the run goes on to its next case
\* or returns with the engine no longer running.
C10_FailureBecomesErrorResult ==
  [][\A r \in DOMAIN runs :
       LET test == runs[r].enabledTests[runs[r].i + 1]
           failedNow == \/ Returns(r) /\ published'[1].type = "error"
                        \/ /\ Len(runs') >= Len(runs)
                           /\ runs'[r].failed > runs[r].failed
       IN  failedNow
             => /\ \E k \in DOMAIN results' :
                     results'[k].name = test.name /\ results'[k].status = "error"
                /\ Returns(r) => (Mounted("runner", runs[r].inst) => ~ isRunning')]_vars

\* The probes of the engine that are in flight: every invocation of
\* runTestSuite that has not returned is at the await of its current case.
ProbesInFlight ==
  {<<r, runs[r].enabledTests[runs[r].i + 1].id>> : r \in DOMAIN runs}

\* C11: strictly sequential execution.  After every step at most one probe
\* started by the engine is in flight, and a run starts its next case only in
\* the step that handles the outcome of its current case.
C11_StrictlySequential ==
  [][/\ Cardinality(ProbesInFlight') <= 1
     /\ \A r \in DOMAIN runs :
          (Len(runs') >= Len(runs) /\ runs'[r].i = runs[r].i + 1)
            => \E o \in Outcomes :
                 published' = << OutcomeNotification(runs[r].enabledTests[runs[r].i + 1], o) >>]_vars

\* C12: the case list of a run is captured once.  A step that changes the
\* registry changes no run, nor progress, nor currentTest; a run that goes on
\* keeps its captured list, and its next case and its progress are taken from
\* that list; the summary of a run that returns reports the captured total;
\* and a run that starts captures the registry as it is at that moment.
C12_CaseListCapturedOnce ==
  [][/\ suites' /= suites
          => UNCHANGED <<runs, progress, currentTest, isRunning>>
     /\ \A r \in DOMAIN runs :
          LET run == runs[r]
              n   == CasesOf(run)
          IN  IF Len(runs') >= Len(runs)
                THEN /\ runs'[r].enabledTests = run.enabledTests
                     /\ (runs'[r].i = run.i + 1 /\ Mounted("runner", run.inst))
                          => /\ currentTest' = run.enabledTests[run.i + 2].name
                             /\ progress' = Frac((run.i + 2) * 100, n)
                ELSE Returns(r)
                       => \E passed \in 0..n :
                            Last(published').message =
                              ToString(passed) \o "/" \o ToString(n) \o " tests passed"
     /\ Len(runs') > Len(runs)
          => Last(runs').enabledTests = getEnabledTests]_vars

\* C12 witness: a run has gone on to a later case while the registry no longer
\* lists as many cases as the run captured, and progress and currentTest are
\* those of the captured list.
C12_Witness ==
  \E r \in DOMAIN runs :
    /\ toggles > 0
    /\ runs[r].i >= 1
    /\ Len(getEnabledTests) /= CasesOf(runs[r])
    /\ progress = Frac((runs[r].i + 1) * 100, CasesOf(runs[r]))
    /\ currentTest = runs[r].enabledTests[runs[r].i + 1].name

\* The ids of all cases of the catalog, suites in catalog order and within a
\* suite its cases in their listed order.
CatalogIds ==
  LET all == Flatten([k \in DOMAIN testSuites |-> testSuites[k].tests])
  IN  [p \in DOMAIN all |-> all[p].id]

CatalogIndex(id) == CHOOSE p \in DOMAIN CatalogIds : CatalogIds[p] = id

\* The cases of a list stand in catalog order.
InCatalogOrder(list) ==
  \A p, q \in DOMAIN list :
    p < q => CatalogIndex(list[p].id) < CatalogIndex(list[q].id)

\* C13: getEnabledTests lists the enabled cases in catalog order, whatever
\* their priorities and whatever toggles led to the registry, and a run
\* executes its cases in that order: the list it captured is in catalog order
\* and the case it is executing is the one at the position of its loop
\* variable.
C13_CatalogOrder ==
  /\ InCatalogOrder(getEnabledTests)
  /\ \A r \in DOMAIN runs :
       /\ InCatalogOrder(runs[r].enabledTests)
       /\ currentTest = runs[r].enabledTests[runs[r].i + 1].name

\* C13 witness: a run has gone on to a later case of a captured list in which
\* a case of lower priority stands before a case of priority high.
C13_Witness ==
  \E r \in DOMAIN runs :
    /\ runs[r].i >= 1
    /\ \E p, q \in DOMAIN runs[r].enabledTests :
         /\ p < q
         /\ runs[r].enabledTests[p].priority /= "high"
         /\ runs[r].enabledTests[q].priority = "high"

\* The categories whose pages read their projection of the Result Store.
Categories ==
  <<"auth", "database", "storage", "realtime", "api", "security", "performance",
    "backup">>

\* The total length of the projections of a store over a list of categories.
RECURSIVE ProjectedLen(_, _)
ProjectedLen(rs, cs) ==
  IF cs = << >> THEN 0
  ELSE Len(getResultsByCategory(rs, Head(cs))) + ProjectedLen(rs, Tail(cs))

\* The entries of a store that invocations of runTest of a page of category c
\* wrote, in store order.
WrittenBy(rs, c) ==
  SelectSeq(rs, LAMBDA r : \E t \in DOMAIN tests :
                             tests[t].testId = r.id /\ tests[t].category = c)

\* C14: getResultsByCategory(c) returns exactly the entries that the page of
\* category c wrote, in store order, all of them with an identifier that
\* starts with c; and the projections over the categories partition the store:
\* the identifier of every entry starts with exactly one category, and the
\* lengths of the projections add up to the length of the store.
C14_ProjectionsPartitionStore ==
  /\ \A k \in DOMAIN Categories :
       LET projection == getResultsByCategory(results, Categories[k])
       IN  /\ projection = WrittenBy(results, Categories[k])
           /\ \A p \in DOMAIN projection : StartsWith(projection[p].id, Categories[k])
  /\ \A e \in DOMAIN results :
       Cardinality({k \in DOMAIN Categories : StartsWith(results[e].id, Categories[k])}) = 1
  /\ ProjectedLen(results, Categories) = Len(results)

\* C14 witness: the store holds entries of two categories and neither
\* projection is the whole store.
C14_Witness ==
  /\ getResultsByCategory(results, "database") /= << >>
  /\ getResultsByCategory(results, "realtime") /= << >>
  /\ Len(getResultsByCategory(results, "database")) < Len(results)

\* The prefixes getResultsByCategory is asked for: the categories, the empty
\* prefix and the prefix of one check.
Prefixes ==
  {Categories[k] : k \in DOMAIN Categories} \cup {"", "database-Create Table"}

\* C15: after clearResults, getResultsByCategory returns the empty sequence
\* for every prefix.  A step that changes the store without any invocation of
\* runTest starting or settling is a click on Clear Results.
C15_ClearEmptiesProjections ==
  [][(results' /= results /\ tests' = tests)
       => \A p \in Prefixes : getResultsByCategory(results', p) = << >>]_vars

\* C15 witness: checks were run, so the store held their entries, and the
\* store has been cleared since.
C15_Witness ==
  /\ tests /= << >>
  /\ \A t \in DOMAIN tests : tests[t].pc = "done"
  /\ results = << >>
  /\ \A p \in Prefixes : getResultsByCategory(results, p) = << >>

\* C16: toggleTest is an involution.  In every registry that toggle calls
\* lead to, for every suite id and case id (known or not, matching or not),
\* two calls of toggleTest in succession give back the registry they started
\* from, every suite flag and every case flag included.
C16_ToggleTestInvolution ==
  \A suiteId \in SuiteIds \cup {UnknownId} : \A testId \in TestIds \cup {UnknownId} :
    toggleTest(toggleTest(suites, suiteId, testId), suiteId, testId) = suites

\* C16 witness: toggle calls have switched a case off, and one call of
\* toggleTest for that case changes the registry.
C16_Witness ==
  /\ toggles > 0
  /\ \E k \in DOMAIN suites : \E j \in DOMAIN suites[k].tests :
       /\ ~ suites[k].tests[j].enabled
       /\ toggleTest(suites, suites[k].id, suites[k].tests[j].id) /= suites
       /\ toggleTest(toggleTest(suites, suites[k].id, suites[k].tests[j].id),
                     suites[k].id, suites[k].tests[j].id) = suites

\* C18: an invocation of runTest finalizes the entry it created with status
\* running.  While its probe is in flight the store holds an entry of the
\* invocation; once the invocation has finished no entry of it has status
\* running; and when no probe is in flight the store holds no running entry.
C18_RunningEntryFinalized ==
  /\ \A t \in DOMAIN tests :
       /\ EntriesOf(results, tests[t].testId) /= {}
       /\ tests[t].pc = "done"
            => \A k \in EntriesOf(results, tests[t].testId) :
                 results[k].status /= "running"
  /\ (\A t \in DOMAIN tests : tests[t].pc = "done")
       => \A k \in DOMAIN results : results[k].status /= "running"

\* C19: progress is advanced at the end of an iteration.  While the probe of
\* case i (0-based) of the only run of the mounted TestRunner is in flight,
\* progress is i/n*100, and it is not 100 before the last case has finished.
C19_ProgressAfterCase ==
  \A r \in DOMAIN runs :
    (Len(runs) = 1 /\ Mounted("runner", runs[r].inst))
      => /\ progress = Frac(runs[r].i * 100, CasesOf(runs[r]))
         /\ progress /= Num(100)

\* This step is a call of stopTestSuite: a run in flight becomes a stopped one.
StopStep ==
  /\ Len(runs') = Len(runs)
  /\ \E r \in DOMAIN runs : ~ runs[r].stopped /\ runs'[r].stopped

\* The notification of line 342.
TestSuiteStopped ==
  Notification("info", "Test Suite Stopped", "Test execution has been stopped")

\* C20: stopTestSuite takes effect immediately.  In the state right after the
\* call isRunning is false and currentTest is null, exactly one notification
\* has been published, of severity info, announcing the stop, and the Result
\* Store and the suite registry are as they were before the call.
C20_StopImmediate ==
  [][StopStep
       => /\ ~ isRunning'
          /\ currentTest' = Null
          /\ Len(published') = 1
          /\ published'[1].type = "info"
          /\ published'[1] = TestSuiteStopped
          /\ UNCHANGED <<results, suites>>]_vars

\* C20 witness: a run has been stopped while the Result Store held an entry;
\* the stop has been announced, the engine is not running and the entry is
\* still in the store.
C20_Witness ==
  /\ \E r \in DOMAIN runs : runs[r].stopped
  /\ published = << TestSuiteStopped >>
  /\ ~ isRunning
  /\ currentTest = Null
  /\ results /= << >>

\* C17: every published notification is eventually removed from the active
\* set by its own expiry: whenever a notification is active, it is later not
\* active, in every behaviour in which the timers fire, also those in which
\* no notification is ever dismissed, the engine stays idle or a run never
\* completes.
C17_NotificationsExpire ==
  \A id \in 1..MaxPublished : (id \in ActiveIds) ~> (id \notin ActiveIds)

\* C17 witness: a run is in flight, a notification published earlier has left
\* the active set and a later one is still in it.
C17_Witness ==
  /\ runs /= << >>
  /\ issued >= 2
  /\ 1 \notin ActiveIds
  /\ issued \in ActiveIds

\* This step is a step of invocation r of runTestSuite: its await returns.
Acts(r) ==
  \/ Returns(r)
  \/ Len(runs') = Len(runs) /\ runs'[r].i /= runs[r].i

\* C21: a run on which stopTestSuite was called never afterwards performs the
\* completion step: no later step of that run publishes the summary "Test
\* Suite Completed", sets progress to 100 or changes currentTest.
C21_StoppedNeverCompletes ==
  [][\A r \in DOMAIN runs :
       (runs[r].stopped /\ Acts(r))
         => /\ \A k \in DOMAIN published' : published'[k].title /= "Test Suite Completed"
            /\ progress' = progress
            /\ currentTest' = currentTest]_vars

(***************************************************************************)
(* The TestRunner page with probes that settle: the await of line 298 of   *)
(* every invocation of runTestSuite returns at some time (weak fairness of *)
(* its continuation).  Nothing is assumed of the user.                     *)
(***************************************************************************)
InitRunnerFair ==
  /\ InitRunner
  /\ suites \in {SmokeOnly(k) : k \in 1..3}

SpecRunnerFair ==
  /\ InitRunnerFair
  /\ [][NextRunner]_vars
  /\ WF_vars(\E r \in DOMAIN runs : \E o \in Outcomes : ProbeSettles(r, o) /\ BusIdle)

\* C22: termination.  With probes that settle, the engine does not remain
\* Running: whenever isRunning is true, at some later time isRunning is false
\* and currentTest is null; and the step in which a run returns leaves
\* isRunning false, currentTest null and progress 100.
C22_RunTerminates ==
  /\ isRunning ~> (~ isRunning /\ currentTest = Null)
  /\ [][\A r \in DOMAIN runs :
          (Returns(r) /\ Mounted("runner", runs[r].inst))
            => /\ ~ isRunning'
               /\ currentTest' = Null
               /\ progress' = Num(100)]_vars

\* C22 witness: a run of two cases was started and has returned.
C22_Witness ==
  /\ runs = << >>
  /\ ~ isRunning
  /\ progress = Num(100)
  /\ Len(published) = 2
  /\ published[2].message = "0/2 tests passed"

\* The titles of the notifications of a case's outcome (lines 303-322).
OutcomeTitles == {"Test Passed", "Test Failed", "Test Error"}

\* The notifications of a case's outcome among those a step published.
OutcomesIn(ns) == {k \in DOMAIN ns : ns[k].title \in OutcomeTitles}

\* C23: no retry inside the engine.  Every step of a run ends the one probe of
\* its current case: it publishes exactly one outcome notification, that of
\* this case, and the run goes on to the next case or, from its last case,
\* returns; a step that is the step of no run publishes no outcome
\* notification.
C23_NoRetry ==
  [][/\ \A r \in DOMAIN runs :
          Acts(r)
            => LET test == runs[r].enabledTests[runs[r].i + 1]
               IN  /\ OutcomesIn(published') = {1}
                   /\ StartsWith(published'[1].message, test.name)
                   /\ IF Returns(r)
                        THEN runs[r].i + 1 = CasesOf(runs[r])
                        ELSE runs'[r].i = runs[r].i + 1
     /\ (\A r \in DOMAIN runs : ~ Acts(r)) => OutcomesIn(published') = {}]_vars

\* C23 witness: the first case of a run failed and the run is at its second
\* case, the notification of the failure being the one just published.
C23_Witness ==
  \E r \in DOMAIN runs :
    /\ runs[r].i = 1
    /\ runs[r].failed = 1
    /\ published = << OutcomeNotification(runs[r].enabledTests[1], "fail") >>

\* C24: toggleSuite(s) changes only the enabled flag of the suite whose id is
\* s.  From every registry the toggle calls lead to and for every id s, known
\* or not: the suite with id s has its flag negated, every other suite is
\* unchanged, every suite keeps its cases with their flags, the registry is
\* unchanged when s is unknown, and a second toggleSuite(s) gives back the
\* list of enabled cases.
C24_ToggleSuiteFrame ==
  \A suiteId \in SuiteIds \cup {UnknownId} :
    LET toggled == toggleSuite(suites, suiteId)
    IN  /\ DOMAIN toggled = DOMAIN suites
        /\ \A k \in DOMAIN suites :
             /\ toggled[k].tests = suites[k].tests
             /\ toggled[k].enabled =
                  IF suites[k].id = suiteId THEN ~ suites[k].enabled ELSE suites[k].enabled
             /\ suites[k].id /= suiteId => toggled[k] = suites[k]
        /\ suiteId \notin SuiteIds => toggled = suites
        /\ getEnabledTestsOf(toggleSuite(toggled, suiteId)) = getEnabledTests

\* C24 witness: a suite with a case switched off has been disabled; enabling
\* it again lists its other cases and not that one.
C24_Witness ==
  \E k \in DOMAIN suites : \E j \in DOMAIN suites[k].tests :
    LET restored == getEnabledTestsOf(toggleSuite(suites, suites[k].id))
    IN  /\ ~ suites[k].enabled
        /\ ~ suites[k].tests[j].enabled
        /\ Len(restored) = Len(getEnabledTests) + Len(suites[k].tests) - 1
        /\ \A p \in DOMAIN restored : restored[p].id /= suites[k].tests[j].id

\* The ids of the cases getEnabledTests lists for a registry.
EnabledIds(ss) == {getEnabledTestsOf(ss)[p].id : p \in DOMAIN getEnabledTestsOf(ss)}

\* C25: toggleTest(s, c) negates the flag of case c of suite s whether or not
\* suite s is enabled, and changes no other case flag and no suite flag.
\* While suite s is disabled the call does not change the list of enabled
\* cases; once the suite is enabled again the list shows the change: it
\* contains case c exactly if the flag of c was false before the call.
C25_ToggleTestMasked ==
  \A suiteId \in SuiteIds \cup {UnknownId} : \A testId \in TestIds \cup {UnknownId} :
    LET toggled == toggleTest(suites, suiteId, testId)
    IN  /\ DOMAIN toggled = DOMAIN suites
        /\ \A k \in DOMAIN suites :
             /\ toggled[k].enabled = suites[k].enabled
             /\ DOMAIN toggled[k].tests = DOMAIN suites[k].tests
             /\ \A j \in DOMAIN suites[k].tests :
                  toggled[k].tests[j].enabled =
                    IF suites[k].id = suiteId /\ suites[k].tests[j].id = testId
                      THEN ~ suites[k].tests[j].enabled
                      ELSE suites[k].tests[j].enabled
             /\ (suites[k].id = suiteId /\ ~ suites[k].enabled)
                  => /\ getEnabledTestsOf(toggled) = getEnabledTests
                     /\ \A j \in DOMAIN suites[k].tests :
                          suites[k].tests[j].id = testId
                            => (testId \in EnabledIds(toggleSuite(toggled, suiteId))
                                  <=> ~ suites[k].tests[j].enabled)

\* C25 witness: one call of toggleTest has switched off a case of suite
\* "performance", which is disabled; the list of enabled cases is as at the
\* start, and with the suite enabled it would not contain the case.
C25_Witness ==
  /\ toggles = 1
  /\ getEnabledTests = getEnabledTestsOf(testSuites)
  /\ \E k \in DOMAIN suites : \E j \in DOMAIN suites[k].tests :
       /\ suites[k].id = "performance"
       /\ ~ suites[k].enabled
       /\ ~ suites[k].tests[j].enabled
       /\ suites[k].tests[j].id \notin EnabledIds(toggleSuite(suites, suites[k].id))

(***************************************************************************)
(* The Result Store alone: addResult, updateResult and clearResults called *)
(* with any arguments, as a consumer of useTest may call them.  The        *)
(* identifiers are those of two checks and one no entry ever has; the      *)
(* updates are the partial records a check's outcome would be written with.*)
(***************************************************************************)
StoreIds == {TestId("database", "Create Table", 0), TestId("realtime", "Subscribe to Table", 0)}

NewResults == {TestResultData(id, "Check", status, Null) :
                 id \in StoreIds, status \in {"running", "success"}}

Updates == {[status |-> "success"], [status |-> "error", message |-> "timeout"]}

AddResultCall(result) ==
  /\ Len(results) < MaxStore
  /\ results' = addResult(results, result)
  /\ UNCHANGED <<activeCategory, inst, suites, isRunning, currentTest, progress,
                 loading, published, runs, tests, now, toggles>>

UpdateResultCall(id, updates) ==
  /\ results' = updateResult(results, id, updates)
  /\ UNCHANGED <<activeCategory, inst, suites, isRunning, currentTest, progress,
                 loading, published, runs, tests, now, toggles>>

ClearResultsCall ==
  /\ results' = clearResults
  /\ UNCHANGED <<activeCategory, inst, suites, isRunning, currentTest, progress,
                 loading, published, runs, tests, now, toggles>>

NextStoreApi ==
  \/ \E result \in NewResults : AddResultCall(result) /\ BusIdle
  \/ \E id \in StoreIds \cup {UnknownId} : \E updates \in Updates :
       UpdateResultCall(id, updates) /\ BusIdle
  \/ ClearResultsCall /\ BusIdle

SpecStoreApi == Init /\ [][NextStoreApi]_vars

\* C26: addResult puts the new entry at the head of the store and keeps the
\* entries it held, in their order: a step in which the store grows adds
\* exactly one entry, the one passed, in front of the list as it was.
C26_AddPrepends ==
  [][Len(results') > Len(results)
       => /\ Len(results') = Len(results) + 1
          /\ Tail(results') = results
          /\ Head(results') \in NewResults]_vars

\* C26 witness: the store holds three entries, added one after the other, the
\* one at the head differing from the one after it.
C26_Witness ==
  /\ Len(results) = MaxStore
  /\ results[1] /= results[2]
  /\ \A k \in DOMAIN results : results[k] \in NewResults

\* C27: updateResult(id, updates) merges the updates into the entries whose
\* identifier is id and leaves every other entry, the number of entries and
\* their order unchanged; when no entry has the identifier the store is
\* unchanged.  For every store the calls lead to, every identifier and every
\* update.
C27_UpdateMerges ==
  \A id \in StoreIds \cup {UnknownId} : \A updates \in Updates :
    LET updated == updateResult(results, id, updates)
    IN  /\ Len(updated) = Len(results)
        /\ \A k \in DOMAIN results :
             IF results[k].id = id
               THEN /\ DOMAIN updated[k] = DOMAIN results[k] \cup DOMAIN updates
                    /\ \A f \in DOMAIN updates : updated[k][f] = updates[f]
                    /\ \A f \in DOMAIN results[k] \ DOMAIN updates :
                         updated[k][f] = results[k][f]
               ELSE updated[k] = results[k]
        /\ (\A k \in DOMAIN results : results[k].id /= id) => updated = results

\* C27 witness: an update has given one entry status error and its message,
\* and the entry after it, of another identifier, is still running.
C27_Witness ==
  /\ Len(results) >= 2
  /\ results[1].status = "error"
  /\ results[1].message = "timeout"
  /\ results[2].status = "running"
  /\ results[2].id /= results[1].id

\* An entry of the store that a case of this invocation of runTestSuite
\* created: it carries the name of one of the captured cases and is not the
\* entry of an invocation of runTest of a category page.
CreatedBy(run, entry, pageTests) ==
  /\ \E c \in DOMAIN run.enabledTests : run.enabledTests[c].name = entry.name
  /\ \A t \in DOMAIN pageTests : pageTests[t].testId /= entry.id

\* C28: the Result Store holds the current run's results only: when
\* runTestSuite returns, every entry of the store was created by a case of
\* that run.
C28_StoreHoldsCurrentRunOnly ==
  [][\A r \in DOMAIN runs :
       Returns(r)
         => \A k \in DOMAIN results' : CreatedBy(runs[r], results'[k], tests')]_vars

\* C29: currentTest is non-null only while the engine is running: in every
\* state of the TestRunner page in which isRunning is false, currentTest is
\* null.
C29_CurrentTestOnlyWhileRunning == ~ isRunning => currentTest = Null

(***************************************************************************)
(* The Database page opened again while a check it started earlier is      *)
(* still in flight: the user clicked Create Table, went to another page    *)
(* and came back.  The page is a new instance of the component, with the   *)
(* initial value of its loading hook (line 10); the invocation of the      *)
(* earlier instance is at its await.                                       *)
(***************************************************************************)
InitRevisit ==
  /\ activeCategory = "database"
  /\ inst = 1
  /\ suites = testSuites
  /\ isRunning = FALSE
  /\ currentTest = Null
  /\ progress = Num(0)
  /\ loading = Null
  /\ results = RecordRunning(<< >>, TestId("database", "Create Table", 0), "Create Table")
  /\ published = << >>
  /\ runs = << >>
  /\ tests = << [inst |-> 0, category |-> "database", testName |-> "Create Table",
                  testId |-> TestId("database", "Create Table", 0), pc |-> "await",
                  settled |-> Pending] >>
  /\ now = 0
  /\ toggles = 0
  /\ notifications = << >>
  /\ issued = 0

SpecRevisit == InitRevisit /\ [][NextPages]_vars

\* The invocations of runTest of the page of category c whose probe is awaited.
InFlight(c) == {t \in DOMAIN tests : tests[t].category = c /\ tests[t].pc = "await"}

\* C30: a category page runs at most one check at a time, and its loading
\* marker is set exactly while an invocation of the page shown is in flight:
\* on one page no two invocations of runTest are awaiting their probes, and
\* the marker is null once the invocation has finished.
C30_OneCheckPerPage ==
  /\ \A c \in PageCategories : Cardinality(InFlight(c)) <= 1
  /\ loading /= Null
       <=> \E t \in DOMAIN tests : tests[t].pc = "await"
                                     /\ Mounted(tests[t].category, tests[t].inst)

=============================================================================
